---- MODULE Spec2Model ----
(***************************************************************************)
(* Celestia (src/App.tsx): the observatory game's state, its handlers and  *)
(* the constellation reconciliation (checkForConstellations), as a state   *)
(* machine.  One action is one run of a handler, timer callback or promise *)
(* continuation, together with the render and the effects React runs right *)
(* after it.                                                               *)
(*                                                                         *)
(* Starlight is held in half units (HALF per unit of starlight): the game  *)
(* loop adds 0.5 starlight per sensor_array level, every other amount is a *)
(* whole number.                                                           *)
(***************************************************************************)
EXTENDS Integers, Sequences, FiniteSets, TLC

VARIABLES
  resources,       \* useState<GameResources>: starlight (half units), data, focus
  stars,           \* useState<CelestialBody[]>
  constellations,  \* useState<Constellation[]>: the committed list
  upgrades,        \* useState<Upgrade[]>: the level of each upgrade id
  logs,            \* useState<LogEntry[]>, newest first
  isScanning,      \* useState(false)
  isLoaded,        \* useState(false)
  scans,           \* handleScan invocations suspended at their awaits
  passes,          \* checkForConstellations invocations suspended at the naming await
  nextBodyId,      \* uuidv4() for bodies: the next unused id
  nextConstId,     \* uuidv4() for constellations: the next unused id
  now,             \* Date.now(), in periods of the game loop's interval
  charted,         \* history: the member set of every constellation created since the last reset
  serial,          \* history: no body was added and no reset made while a pass was suspended
  lastPass,        \* history: the input body list and the output of the pass that finished last
  selectedStar,    \* useState<CelestialBody | null>: <<>> or <<the selected record>>
  isAnalyzing,     \* useState(false)
  analyses,        \* handleAnalyze invocations suspended at their await: the selectedStar each holds
  storage,         \* localStorage under SAVE_KEY: <<>> or <<the stored text>>
  timers           \* time left, in periods of 1000 ms, to the next callback of the game loop's and of the auto-save's interval

analysisVars == <<selectedStar, isAnalyzing, analyses>>

vars == <<resources, stars, constellations, upgrades, logs, isScanning, isLoaded,
          scans, passes, nextBodyId, nextConstId, now, charted, serial, lastPass,
          selectedStar, isAnalyzing, analyses, storage, timers>>

----------------------------------------------------------------------------
\* Bounds of the model
MaxBodies == 4      \* bodies ever discovered
MaxScans == 2       \* scans suspended at the same time
MaxTime == 1        \* game loop periods
MaxStarlight == 11  \* gazing stops at this much starlight
MaxRand == 1        \* outcomes of one Math.random() draw
NameRand == 2       \* outcomes of one Math.random() draw in the naming scenario
NameBodies == 6     \* bodies ever discovered in the naming scenario
MergeBodies == 7    \* bodies ever discovered in the merge scenario
PlayedStarlight == 200  \* starlight gazed up before a scenario starts
AnalyzeBodies == 4  \* bodies ever discovered in the analysis scenario
SkyBodies == 4      \* bodies ever discovered in the exact-distance scenario
SaveBodies == 10    \* bodies ever discovered in the saving scenario
MaxLevel == 1       \* level an upgrade is bought up to
ResetBodies == 4    \* bodies ever discovered in the reset scenario
ResBodies == 3      \* bodies ever discovered in the resource scenario
ResStarlight == 100 \* starlight gazed up before the resource scenario starts
ResTime == 1        \* game loop periods in the resource scenario
UpgradeStarlight == 5900  \* starlight of the stored game of the upgrade scenario
UpgradeLevels == 6  \* level an upgrade is bought up to in the upgrade scenario
SaveConsts == 3     \* constellation ids given before the last reload of the page
SaveStarlight == 80 \* starlight gazed up before the saving scenario starts

\* Program constants
MAX_DIST == 180
MAX_FOCUS_BASE == 100
FOCUS_REGEN_BASE == 1
LOG_CAP == 50
HALF == 2
TICK_PERIOD == 1    \* the game loop's setInterval(..., 1000)
SAVE_PERIOD == 2    \* the auto-save's setInterval(..., 2000)
SAVE_LOGS == 20     \* logs.slice(0, 20)
NoTimer == -1       \* the time to the callback of an interval that is not set

INITIAL_RESOURCES == [starlight |-> 0, data |-> 0, focus |-> 100]

UpgradeIds == {"lens_polishing", "optical_servos", "sensor_array", "focus_condenser",
               "stabilizers", "scan_matrix", "quantum_processor"}

UPGRADES == [u \in UpgradeIds |-> 0]

\* Positions a scan may draw (Math.random() * 1000 on each axis): a chain
\* 0 - 150 - 300 whose ends are not adjacent to each other.
Coords == { [x |-> 0, y |-> 0], [x |-> 150, y |-> 0], [x |-> 300, y |-> 0] }

\* Positions with pairs at exactly MAX_DIST: (0,0)-(180,0)-(360,0) along the
\* axis and (0,0)-(108,144) on a 3-4-5 triangle; (150,0) and (108,144) are
\* closer than that to (180,0).
SkyCoords == { [x |-> 0, y |-> 0], [x |-> 180, y |-> 0], [x |-> 360, y |-> 0],
               [x |-> 108, y |-> 144], [x |-> 150, y |-> 0] }

Min(a, b) == IF a < b THEN a ELSE b
Range(s) == { s[i] : i \in 1..Len(s) }

----------------------------------------------------------------------------
\* checkForConstellations, step 1: the adjacency graph

AdjacentMutant(s1, s2) ==
  LET dx == s1.coordinates.x - s2.coordinates.x
      dy == s1.coordinates.y - s2.coordinates.y
  IN  dx * dx + dy * dy <= MAX_DIST * MAX_DIST

\* Math.hypot(dx, dy) < MAX_DIST, compared on the squares
Adjacent(s1, s2) ==
  LET dx == s1.coordinates.x - s2.coordinates.x
      dy == s1.coordinates.y - s2.coordinates.y
  IN  dx * dx + dy * dy < MAX_DIST * MAX_DIST

RECURSIVE NeighborsFromMutant(_, _, _)
NeighborsFromMutant(currentStars, m, k) ==
  IF k > Len(currentStars) THEN <<>>
  ELSE IF k > m /\ Adjacent(currentStars[m], currentStars[k])
       THEN <<currentStars[k].id>> \o NeighborsFromMutant(currentStars, m, k + 1)
       ELSE NeighborsFromMutant(currentStars, m, k + 1)

RECURSIVE NeighborsFrom(_, _, _)
\* adj.get(currentStars[m].id): the pair loop pushes the other body of every
\* adjacent pair, which leaves the list in ascending index of the other body
NeighborsFrom(currentStars, m, k) ==
  IF k > Len(currentStars) THEN <<>>
  ELSE IF k # m /\ Adjacent(currentStars[m], currentStars[k])
       THEN <<currentStars[k].id>> \o NeighborsFrom(currentStars, m, k + 1)
       ELSE NeighborsFrom(currentStars, m, k + 1)

BuildAdj(currentStars) ==
  [id \in { currentStars[i].id : i \in 1..Len(currentStars) } |->
     LET m == CHOOSE i \in 1..Len(currentStars) : currentStars[i].id = id
     IN  NeighborsFrom(currentStars, m, 1)]

----------------------------------------------------------------------------
\* checkForConstellations, step 2: connected components by an explicit stack

RECURSIVE PushNeighbors(_, _, _, _)
\* for (const neighborId of neighbors) if (!visited.has) { visited.add; stack.push }
PushNeighbors(neighbors, i, stack, visited) ==
  IF i > Len(neighbors) THEN [stack |-> stack, visited |-> visited]
  ELSE IF neighbors[i] \notin visited
       THEN PushNeighbors(neighbors, i + 1, Append(stack, neighbors[i]),
                          visited \cup {neighbors[i]})
       ELSE PushNeighbors(neighbors, i + 1, stack, visited)

RECURSIVE Traverse(_, _, _, _)
\* while (stack.length > 0) { pop, cluster.push, push the unvisited neighbours }
Traverse(adj, stack, visited, cluster) ==
  IF Len(stack) = 0 THEN [cluster |-> cluster, visited |-> visited]
  ELSE LET currentId == stack[Len(stack)]
           rest == SubSeq(stack, 1, Len(stack) - 1)
           p == PushNeighbors(adj[currentId], 1, rest, visited)
       IN  Traverse(adj, p.stack, p.visited, Append(cluster, currentId))

MinClusterMutant(cluster) == Len(cluster) >= 2
\* if (cluster.length >= 3) clusters.push(cluster)
IsCluster(cluster) == Len(cluster) >= 3

RECURSIVE Components(_, _, _, _, _)
\* for (const star of currentStars) if (!visited.has(star.id)) { ... }
Components(currentStars, adj, i, visited, clusters) ==
  IF i > Len(currentStars) THEN clusters
  ELSE IF currentStars[i].id \in visited
       THEN Components(currentStars, adj, i + 1, visited, clusters)
       ELSE LET t == Traverse(adj, <<currentStars[i].id>>,
                              visited \cup {currentStars[i].id}, <<>>)
            IN  Components(currentStars, adj, i + 1, t.visited,
                           IF IsCluster(t.cluster) THEN Append(clusters, t.cluster)
                           ELSE clusters)

\* steps 1 and 2: the clusters of a body list, in the order the code finds them
FindClusters(currentStars) ==
  Components(currentStars, BuildAdj(currentStars), 1, {}, <<>>)

----------------------------------------------------------------------------
\* checkForConstellations, step 3: merge with the existing constellations

OverlapsMutant(c, cluster) == \A id \in Range(cluster) : id \in Range(c.starIds)
\* c.starIds.some(id => cluster.includes(id))
Overlaps(c, cluster) == \E id \in Range(c.starIds) : id \in Range(cluster)

RECURSIVE AddAll(_, _, _)
\* new Set([...]) / mergedIds.add(id): insertion order, one entry per id
AddAll(merged, ids, i) ==
  IF i > Len(ids) THEN merged
  ELSE AddAll(IF ids[i] \in Range(merged) THEN merged ELSE Append(merged, ids[i]),
              ids, i + 1)

RECURSIVE ConsumeOverlapsMutant(_, _, _, _)
ConsumeOverlapsMutant(overlaps, i, mergedIds, updated) ==
  IF i > Len(overlaps) THEN [mergedIds |-> mergedIds, updated |-> updated]
  ELSE ConsumeOverlapsMutant(overlaps, i + 1, AddAll(mergedIds, overlaps[i].starIds, 1),
                             updated)

RECURSIVE ConsumeOverlaps(_, _, _, _)
\* for (let i = 1; i < overlaps.length; i++): take overlaps[i]'s stars and
\* filter it out of the list
ConsumeOverlaps(overlaps, i, mergedIds, updated) ==
  IF i > Len(overlaps) THEN [mergedIds |-> mergedIds, updated |-> updated]
  ELSE LET Keep(c) == c.id # overlaps[i].id
       IN  ConsumeOverlaps(overlaps, i + 1, AddAll(mergedIds, overlaps[i].starIds, 1),
                           SelectSeq(updated, Keep))

MergeClusterNoExtend(cluster, overlaps, updated, hasChanges) ==
  IF Len(overlaps) > 1
  THEN LET primaryC == overlaps[1]
           m == ConsumeOverlaps(overlaps, 2,
                                AddAll(AddAll(<<>>, primaryC.starIds, 1), cluster, 1),
                                updated)
       IN  [updated |-> [j \in 1..Len(m.updated) |->
                           IF m.updated[j].id = primaryC.id
                           THEN [m.updated[j] EXCEPT !.starIds = m.mergedIds]
                           ELSE m.updated[j]],
            hasChanges |-> TRUE]
  ELSE [updated |-> updated, hasChanges |-> hasChanges]

MergeClusterRenamed(cluster, overlaps, updated, hasChanges) ==
  LET primaryC == overlaps[1]
      hasNewStars == \E id \in Range(cluster) : id \notin Range(primaryC.starIds)
  IN  IF hasNewStars \/ Len(overlaps) > 1
      THEN LET m == ConsumeOverlaps(overlaps, 2,
                                    AddAll(AddAll(<<>>, primaryC.starIds, 1), cluster, 1),
                                    updated)
           IN  [updated |-> [j \in 1..Len(m.updated) |->
                               IF m.updated[j].id = primaryC.id
                               THEN [id |-> primaryC.id,
                                     name |-> overlaps[Len(overlaps)].name,
                                     starIds |-> m.mergedIds,
                                     discoveredAt |-> overlaps[Len(overlaps)].discoveredAt]
                               ELSE m.updated[j]],
                hasChanges |-> TRUE]
      ELSE [updated |-> updated, hasChanges |-> hasChanges]

MergeClusterMutant(cluster, overlaps, updated, hasChanges) ==
  LET primaryC == overlaps[1]
      mergedIds == AddAll(AddAll(<<>>, primaryC.starIds, 1), cluster, 1)
  IN  [updated |-> [j \in 1..Len(updated) |->
                      IF updated[j].id = primaryC.id
                      THEN [updated[j] EXCEPT !.starIds = mergedIds]
                      ELSE updated[j]],
       hasChanges |-> TRUE]
\* the else branch of the loop body (lines 190-218) for one cluster
MergeCluster(cluster, overlaps, updated, hasChanges) ==
  LET primaryC == overlaps[1]
      hasNewStars == \E id \in Range(cluster) : id \notin Range(primaryC.starIds)
  IN  IF hasNewStars \/ Len(overlaps) > 1
      THEN LET m == ConsumeOverlaps(overlaps, 2,
                                    AddAll(AddAll(<<>>, primaryC.starIds, 1), cluster, 1),
                                    updated)
           IN  [updated |-> [j \in 1..Len(m.updated) |->
                               IF m.updated[j].id = primaryC.id
                               THEN [m.updated[j] EXCEPT !.starIds = m.mergedIds]
                               ELSE m.updated[j]],
                hasChanges |-> TRUE]
      ELSE [updated |-> updated, hasChanges |-> hasChanges]

RECURSIVE RunClusters(_, _, _, _)
\* for (const cluster of clusters), from cluster k on, up to the next await of
\* generateConstellationName or to the end of the loop
RunClusters(clusters, k, updated, hasChanges) ==
  IF k > Len(clusters)
  THEN [status |-> "done", k |-> k, updated |-> updated, hasChanges |-> hasChanges]
  ELSE LET cluster == clusters[k]
           Hit(c) == Overlaps(c, cluster)
           overlaps == SelectSeq(updated, Hit)
       IN  IF Len(overlaps) = 0
           THEN [status |-> "await", k |-> k, updated |-> updated,
                 hasChanges |-> hasChanges]
           ELSE LET m == MergeCluster(cluster, overlaps, updated, hasChanges)
                IN  RunClusters(clusters, k + 1, m.updated, m.hasChanges)

\* checkForConstellations from its call to its first await or its return
StartPass(currentStars, currentConstellations) ==
  IF Len(currentStars) < 3
  THEN [status |-> "done", k |-> 1, updated |-> currentConstellations,
        hasChanges |-> FALSE, clusters |-> <<>>]
  ELSE LET clusters == FindClusters(currentStars)
           r == RunClusters(clusters, 1, currentConstellations, FALSE)
       IN  [status |-> r.status, k |-> r.k, updated |-> r.updated,
            hasChanges |-> r.hasChanges, clusters |-> clusters]

rewardStarlightMutant(cluster) == 50 + Len(cluster) * 5
rewardStarlight(cluster) == 50 + Len(cluster) * 10
rewardData(cluster) == 20 + Len(cluster) * 5

----------------------------------------------------------------------------
\* services/gemini: generateConstellationName

Prefixes == <<"Alpha", "Beta", "Gamma", "Delta", "The Great", "The Lesser",
              "Northern", "Southern">>
Roots == <<"Hydra", "Lion", "Crown", "Arrow", "Cross", "Bear", "Serpent", "Eagle">>

\* A name is <<kind, a, b>>: the oracle's json.name, `Cluster ${a}` when the
\* answer has no name, `${Prefixes[a]} ${Roots[b]}` when the request throws.
NoName == <<"", 0, 0>>
generateConstellationNameThrows(starCount) == {}
generateConstellationNameMutant(starCount) ==
  { <<"json.name", 0, 0>>, <<"Cluster", 0, 0>>, NoName }
\* the names one request may resolve with when Math.random() has `rand`
\* outcomes
ConstellationNames(starCount, rand) ==
  { <<"json.name", 0, 0>> }
    \cup { <<"Cluster", n, 0>> : n \in 0..(rand - 1) }
    \cup { <<"fallback", i, j>> : i \in 1..Min(rand, Len(Prefixes)),
                                  j \in 1..Min(rand, Len(Roots)) }

generateConstellationName(starCount) == ConstellationNames(starCount, MaxRand)

generateConstellationNameDrawn(starCount) == ConstellationNames(starCount, NameRand)

----------------------------------------------------------------------------
\* services/gemini: generateCelestialDiscovery

\* A body name is <<kind, n>>: the oracle's data.name, "Unknown" when the
\* answer has no name, `Unknown Signal ${n}` when the request fails.
OracleBody == [name |-> <<"data.name", 0>>]

\* the oracle's answer, with or without a name, or the placeholder its catch
\* returns
generateCelestialDiscovery(coordinates, existingCount) ==
  { OracleBody, [name |-> <<"", 0>>] }
    \cup { [name |-> <<"Unknown Signal", n>>] : n \in 0..(MaxRand - 1) }

----------------------------------------------------------------------------
\* Helpers

LogEntry(type, name, light, data) ==
  [type |-> type, name |-> name, light |-> light, data |-> data]

\* setLogs(prev => [entry, ...prev].slice(0, 50))
addLog(prev, entry) ==
  LET all == <<entry>> \o prev IN SubSeq(all, 1, Min(LOG_CAP, Len(all)))

Level(id) == upgrades[id]

focusCost == 20 + (Len(stars) * 3) \div 2
lightCost == 10 + Len(stars) \div 2

NoPass == [stars |-> <<>>, input |-> <<>>, result |-> <<>>, ran |-> FALSE]

NewBodyMutant(id, coords, data) ==
  [id |-> 1, name |-> data.name, coordinates |-> coords, analyzed |-> FALSE,
   description |-> <<>>]

\* a body as handleScan builds it
NewBody(id, coords, data) ==
  [id |-> id,
   name |-> IF data.name[1] = "" THEN <<"Unknown", 0>> ELSE data.name,
   coordinates |-> coords, analyzed |-> FALSE, description |-> <<>>]

SaveEffectMutant(loaded) == SAVE_PERIOD

\* The auto-save effect: if (!isLoaded) return; otherwise setInterval(...,
\* 2000). The time to the callback of the interval it leaves.
SaveEffect(loaded) == IF ~loaded THEN NoTimer ELSE SAVE_PERIOD

\* Both intervals as their effects set them. Before the game is loaded
\* neither effect sets an interval and the value is not read.
Armed == [tick |-> TICK_PERIOD, save |-> SaveEffect(TRUE)]

\* the intervals of a render in which isLoaded is false
Unarmed == [tick |-> NoTimer, save |-> SaveEffect(FALSE)]

\* A render after a change of resources, stars, constellations, upgrades or
\* logs: the auto-save effect clears its interval and sets a new one; nothing
\* is written.
RearmSave ==
  /\ timers' = [timers EXCEPT !.save = SAVE_PERIOD]
  /\ UNCHANGED storage

TickedMutant(prev) ==
  LET focusRegen == FOCUS_REGEN_BASE + Level("stabilizers")
      passiveStarlight == Level("sensor_array")
  IN  [prev EXCEPT !.focus = @ + focusRegen,
                   !.starlight = @ + passiveStarlight]

\* the updater the game loop passes to setResources
Ticked(prev) ==
  LET maxFocus == MAX_FOCUS_BASE + Level("focus_condenser") * 50
      focusRegen == FOCUS_REGEN_BASE + Level("stabilizers")
      passiveStarlight == Level("sensor_array")   \* level * 0.5, in half units
  IN  [prev EXCEPT !.focus = Min(maxFocus, @ + focusRegen),
                   !.starlight = @ + passiveStarlight]

----------------------------------------------------------------------------
\* The first render of App over whatever the browser holds under SAVE_KEY;
\* firstBodyId and firstConstId are the first ids uuidv4() has not given yet.
FreshPage(stored, firstBodyId, firstConstId) ==
  /\ resources = INITIAL_RESOURCES
  /\ stars = <<>>
  /\ constellations = <<>>
  /\ upgrades = UPGRADES
  /\ logs = <<>>
  /\ isScanning = FALSE
  /\ isLoaded = FALSE
  /\ scans = 0
  /\ passes = <<>>
  /\ nextBodyId = firstBodyId
  /\ nextConstId = firstConstId
  /\ now = 0
  /\ charted = <<>>
  /\ serial = TRUE
  /\ lastPass = NoPass
  /\ selectedStar = <<>>
  /\ isAnalyzing = FALSE
  /\ analyses = <<>>
  /\ storage = stored
  /\ timers = Unarmed

Init == FreshPage(<<>>, 1, 1)

\* triggerGaze, once the cooldown has passed
Gaze ==
  /\ isLoaded
  /\ resources.starlight < HALF * MaxStarlight
  /\ resources' = [resources EXCEPT !.starlight = @ + HALF * (1 + Level("lens_polishing"))]
  /\ RearmSave
  /\ UNCHANGED <<stars, constellations, upgrades, logs, isScanning, isLoaded, scans,
                 passes, nextBodyId, nextConstId, now, charted, serial, lastPass,
                 analysisVars>>

\* the game loop's interval callback, once per period; limit bounds the
\* periods
TickUpTo(limit) ==
  /\ isLoaded
  /\ now < limit
  /\ now' = now + 1
  /\ resources' = Ticked(resources)
  /\ timers' = Armed
  /\ UNCHANGED storage
  /\ UNCHANGED <<stars, constellations, upgrades, logs, isScanning, isLoaded, scans,
                 passes, nextBodyId, nextConstId, charted, serial, lastPass,
                 analysisVars>>

Tick == TickUpTo(MaxTime)

\* handleScan up to its first await; limit bounds the bodies ever discovered
ScanStartUpTo(limit) ==
  /\ isLoaded
  /\ ~(resources.focus < focusCost \/ resources.starlight < HALF * lightCost \/ isScanning)
  /\ scans < MaxScans
  /\ (nextBodyId - 1) + scans < limit
  /\ isScanning' = TRUE
  /\ resources' = [resources EXCEPT !.focus = @ - focusCost,
                                    !.starlight = @ - HALF * lightCost]
  /\ logs' = addLog(logs, LogEntry("info", NoName, 0, 0))
  /\ scans' = scans + 1
  /\ RearmSave
  /\ UNCHANGED <<stars, constellations, upgrades, isLoaded, passes, nextBodyId,
                 nextConstId, now, charted, serial, lastPass,
                 analysisVars>>

ScanStart == ScanStartUpTo(MaxBodies)

TriggerCheckMutant(newStars) ==
  IF Len(newStars) > 0
  THEN LET r == StartPass(stars, constellations)
       IN  /\ constellations' = IF r.status = "done" /\ r.hasChanges
                                THEN r.updated ELSE constellations
           /\ passes' = IF r.status = "await"
                        THEN Append(passes, [currentStars |-> stars,
                                             currentConstellations |-> constellations,
                                             clusters |-> r.clusters, k |-> r.k,
                                             updated |-> r.updated,
                                             hasChanges |-> r.hasChanges])
                        ELSE passes
           /\ lastPass' = IF r.status = "done"
                          THEN [stars |-> stars, input |-> constellations,
                                result |-> r.updated, ran |-> TRUE]
                          ELSE lastPass
  ELSE UNCHANGED <<constellations, passes, lastPass>>

\* The constellation trigger effect after a render in which stars.length
\* changed: the call of checkForConstellations(stars, constellations) and what
\* it does before it suspends or returns.
TriggerCheckOn(newStars, newConstellations) ==
  IF Len(newStars) > 0
  THEN LET r == StartPass(newStars, newConstellations)
       IN  /\ constellations' = IF r.status = "done" /\ r.hasChanges
                                THEN r.updated ELSE newConstellations
           /\ passes' = IF r.status = "await"
                        THEN Append(passes, [currentStars |-> newStars,
                                             currentConstellations |-> newConstellations,
                                             clusters |-> r.clusters, k |-> r.k,
                                             updated |-> r.updated,
                                             hasChanges |-> r.hasChanges])
                        ELSE passes
           /\ lastPass' = IF r.status = "done"
                          THEN [stars |-> newStars, input |-> newConstellations,
                                result |-> r.updated, ran |-> TRUE]
                          ELSE lastPass
  ELSE /\ constellations' = newConstellations
       /\ UNCHANGED <<passes, lastPass>>

TriggerCheck(newStars) == TriggerCheckOn(newStars, constellations)

----------------------------------------------------------------------------
\* Persistence

\* the order of the UPGRADES array
UpgradeOrder == <<"lens_polishing", "optical_servos", "sensor_array", "focus_condenser",
                  "stabilizers", "scan_matrix", "quantum_processor">>

\* A number of half units as JSON writes it: the whole part and the digit
\* after the point (12 or 12.5).
ToDecimal(h) == [whole |-> h \div HALF, tenths |-> 5 * (h % HALF)]

FromDecimal(d) == d.whole * HALF + d.tenths \div 5

StringifyMutant(r, st, cs, up, lg) ==
  [resources |-> [starlight |-> ToDecimal(r.starlight), data |-> r.data,
                  focus |-> r.focus],
   stars |-> st,
   constellations |-> cs,
   upgrades |-> [k \in 1..Len(UpgradeOrder) |->
                   [id |-> UpgradeOrder[k], level |-> up[UpgradeOrder[k]]]],
   logs |-> lg]

\* JSON.stringify of stateToSave: the members of the object written; the
\* functions of the upgrade records are not written, the log is cut to its
\* SAVE_LOGS newest entries.
Stringify(r, st, cs, up, lg) ==
  [resources |-> [starlight |-> ToDecimal(r.starlight), data |-> r.data,
                  focus |-> r.focus],
   stars |-> st,
   constellations |-> cs,
   upgrades |-> [k \in 1..Len(UpgradeOrder) |->
                   [id |-> UpgradeOrder[k], level |-> up[UpgradeOrder[k]]]],
   logs |-> SubSeq(lg, 1, Min(Len(lg), SAVE_LOGS))]

\* a stored text JSON.parse throws on
Unparseable == [SyntaxError |-> TRUE]

\* UPGRADES.map(def => saved ? { ...def, level: saved.level } : def)
MapLevels(savedUpgrades) ==
  [u \in UpgradeIds |->
     IF \E k \in 1..Len(savedUpgrades) : savedUpgrades[k].id = u
     THEN LET k == CHOOSE k \in 1..Len(savedUpgrades) :
                     /\ savedUpgrades[k].id = u
                     /\ \A j \in 1..(k - 1) : savedUpgrades[j].id # u
          IN  savedUpgrades[k].level
     ELSE UPGRADES[u]]

\* What the body of loadGame's try sets from the stored text, member by
\* member, over the state of the first render; a text that does not parse, or
\* no text, sets nothing.
Loaded(stored) ==
  LET parsed == IF stored = <<>> \/ stored = <<Unparseable>>
                THEN [none \in {} |-> 0] ELSE stored[1]
      has(f) == f \in DOMAIN parsed
  IN  [resources |-> IF has("resources")
                     THEN [starlight |-> FromDecimal(parsed.resources.starlight),
                           data |-> parsed.resources.data,
                           focus |-> parsed.resources.focus]
                     ELSE INITIAL_RESOURCES,
       stars |-> IF has("stars") THEN parsed.stars ELSE <<>>,
       constellations |-> IF has("constellations") THEN parsed.constellations ELSE <<>>,
       logs |-> IF has("logs") THEN parsed.logs ELSE <<>>,
       upgrades |-> IF has("upgrades") THEN MapLevels(parsed.upgrades) ELSE UPGRADES]

\* useEffect(loadGame, []) and the render that follows it, in which the
\* constellation trigger effect sees the loaded lists
LoadGame ==
  /\ ~isLoaded
  /\ LET l == Loaded(storage)
     IN  /\ resources' = l.resources
         /\ stars' = l.stars
         /\ logs' = l.logs
         /\ upgrades' = l.upgrades
         /\ TriggerCheckOn(l.stars, l.constellations)
         /\ charted' = [i \in 1..Len(l.constellations) |-> Range(l.constellations[i].starIds)]
  /\ isLoaded' = TRUE
  /\ timers' = Armed
  /\ UNCHANGED <<isScanning, scans, nextBodyId, nextConstId, now, serial, storage,
                 analysisVars>>

\* The callback of the auto-save interval, over the state of the render that
\* set the interval; it runs only if an interval is set.
AutoSave ==
  /\ timers.save = 0
  /\ storage' = <<Stringify(resources, stars, constellations, upgrades, logs)>>
  /\ timers' = [timers EXCEPT !.save = SAVE_PERIOD]
  /\ UNCHANGED <<resources, stars, constellations, upgrades, logs, isScanning, isLoaded,
                 scans, passes, nextBodyId, nextConstId, now, charted, serial, lastPass,
                 analysisVars>>

\* 1000 ms pass and both intervals come nearer to their callbacks.
TimePasses ==
  /\ isLoaded
  /\ timers.tick > 0
  /\ timers.save > 0
  /\ timers' = [tick |-> timers.tick - 1, save |-> timers.save - 1]
  /\ UNCHANGED <<resources, stars, constellations, upgrades, logs, isScanning, isLoaded,
                 scans, passes, nextBodyId, nextConstId, now, charted, serial, lastPass,
                 analysisVars, storage>>

\* 1000 ms pass in which the browser runs no callback (a throttled or busy
\* page): the game loop's callback stays due and the auto-save interval comes
\* nearer to its own.
Stall ==
  /\ timers.save > 0
  /\ timers' = [tick |-> IF timers.tick = NoTimer THEN NoTimer ELSE 0,
                 save |-> timers.save - 1]
  /\ UNCHANGED <<resources, stars, constellations, upgrades, logs, isScanning, isLoaded,
                 scans, passes, nextBodyId, nextConstId, now, charted, serial, lastPass,
                 analysisVars, storage>>

\* The callback of the game loop's interval: setResources gives a new
\* resources object, so the render that follows re-arms the auto-save.
GameLoop ==
  /\ isLoaded
  /\ timers.tick = 0
  /\ resources' = Ticked(resources)
  /\ timers' = Armed
  /\ UNCHANGED <<stars, constellations, upgrades, logs, isScanning, isLoaded,
                 scans, passes, nextBodyId, nextConstId, now, charted, serial, lastPass,
                 analysisVars, storage>>

\* The page is loaded again: the state of every useState is the one of the
\* first render, the suspended handlers are gone, the storage stays.
Reload ==
  /\ isLoaded
  /\ nextConstId < SaveConsts
  /\ resources' = INITIAL_RESOURCES
  /\ stars' = <<>>
  /\ constellations' = <<>>
  /\ upgrades' = UPGRADES
  /\ logs' = <<>>
  /\ isScanning' = FALSE
  /\ isLoaded' = FALSE
  /\ scans' = 0
  /\ passes' = <<>>
  /\ charted' = <<>>
  /\ serial' = TRUE
  /\ lastPass' = NoPass
  /\ selectedStar' = <<>>
  /\ isAnalyzing' = FALSE
  /\ analyses' = <<>>
  /\ timers' = Unarmed
  /\ UNCHANGED <<nextBodyId, nextConstId, now, storage>>

ScanCompleteFromMutant(coordSet, answers) ==
  /\ scans > 0
  /\ \E coords \in coordSet : \E data \in answers :
       LET newBody == NewBody(nextBodyId, coords, data)
       IN  IF data.name[1] = "Unknown Signal"
           THEN /\ logs' = addLog(logs, LogEntry("warning", NoName, 0, 0))
                /\ UNCHANGED <<stars, constellations, passes, lastPass, resources,
                               nextBodyId>>
           ELSE /\ stars' = Append(stars, newBody)
                /\ TriggerCheck(Append(stars, newBody))
                /\ logs' = addLog(logs, LogEntry("discovery", NoName, 0, 0))
                /\ resources' = [resources EXCEPT !.data = @ + 5]
                /\ nextBodyId' = nextBodyId + 1
  /\ isScanning' = FALSE
  /\ scans' = scans - 1
  /\ serial' = (serial /\ Len(passes) = 0)
  /\ RearmSave
  /\ UNCHANGED <<upgrades, isLoaded, nextConstId, now, charted, analysisVars>>

\* handleScan from the oracle's answer on (the fallback body included), the
\* render, and the constellation trigger effect; coordSet is what
\* Math.random() may draw, answers what generateCelestialDiscovery may return
ScanCompleteFrom(coordSet, answers) ==
  /\ scans > 0
  /\ \E coords \in coordSet : \E data \in answers :
       LET newBody == NewBody(nextBodyId, coords, data)
       IN  /\ stars' = Append(stars, newBody)
           /\ TriggerCheck(Append(stars, newBody))
  /\ logs' = addLog(logs, LogEntry("discovery", NoName, 0, 0))
  /\ resources' = [resources EXCEPT !.data = @ + 5]
  /\ isScanning' = FALSE
  /\ scans' = scans - 1
  /\ nextBodyId' = nextBodyId + 1
  /\ serial' = (serial /\ Len(passes) = 0)
  /\ RearmSave
  /\ UNCHANGED <<upgrades, isLoaded, nextConstId, now, charted, analysisVars>>

\* the scans whose discovery request the oracle answers with a name
ScanCompleteAt(coordSet) == ScanCompleteFrom(coordSet, {OracleBody})

ScanComplete == ScanCompleteAt(Coords)

\* checkForConstellations from the return of generateConstellationName to its
\* next await or its end; names[n] are the names the request can return for
\* a cluster of n bodies
NameReturnWith(names) ==
  \E i \in 1..Len(passes) :
    \E name \in names[Len(passes[i].clusters[passes[i].k])] :
      LET p == passes[i]
          cluster == p.clusters[p.k]
          newConstellation == [id |-> nextConstId, name |-> name,
                               starIds |-> cluster, discoveredAt |-> now]
          r == RunClusters(p.clusters, p.k + 1, Append(p.updated, newConstellation), TRUE)
          others == [j \in 1..(Len(passes) - 1) |->
                       IF j < i THEN passes[j] ELSE passes[j + 1]]
      IN  /\ resources' = [resources EXCEPT
                             !.starlight = @ + HALF * rewardStarlight(cluster),
                             !.data = @ + rewardData(cluster)]
          /\ logs' = addLog(logs, LogEntry("constellation", name,
                                           rewardStarlight(cluster), rewardData(cluster)))
          /\ nextConstId' = nextConstId + 1
          /\ charted' = Append(charted, Range(cluster))
          /\ IF r.status = "await"
             THEN /\ passes' = [passes EXCEPT ![i] =
                                  [p EXCEPT !.k = r.k, !.updated = r.updated,
                                            !.hasChanges = r.hasChanges]]
                  /\ UNCHANGED <<constellations, lastPass>>
             ELSE /\ passes' = others
                  /\ constellations' = IF r.hasChanges THEN r.updated ELSE constellations
                  /\ lastPass' = [stars |-> p.currentStars,
                                  input |-> p.currentConstellations,
                                  result |-> r.updated, ran |-> TRUE]
  /\ RearmSave
  /\ UNCHANGED <<stars, upgrades, isScanning, isLoaded, scans, nextBodyId, now, serial,
                 analysisVars>>

NameReturn == NameReturnWith([n \in 0..nextBodyId |-> generateConstellationName(n)])

PerformResetMutant ==
  /\ isLoaded
  /\ resources' = INITIAL_RESOURCES
  /\ stars' = <<>>
  /\ constellations' = <<>>
  /\ upgrades' = UPGRADES
  /\ logs' = addLog(<<>>, LogEntry("warning", NoName, 0, 0))
  /\ isScanning' = FALSE
  /\ charted' = <<>>
  /\ serial' = (serial /\ Len(passes) = 0)
  /\ lastPass' = NoPass
  /\ selectedStar' = <<>>
  /\ isAnalyzing' = FALSE
  /\ storage' = storage
  /\ timers' = [tick |-> IF upgrades = UPGRADES THEN timers.tick ELSE TICK_PERIOD,
                 save |-> SAVE_PERIOD]
  /\ UNCHANGED <<isLoaded, scans, passes, nextBodyId, nextConstId, now, analyses>>

\* performReset (the confirm button of the reset dialog)
PerformReset ==
  /\ isLoaded
  /\ resources' = INITIAL_RESOURCES
  /\ stars' = <<>>
  /\ constellations' = <<>>
  /\ upgrades' = UPGRADES
  /\ logs' = addLog(<<>>, LogEntry("warning", NoName, 0, 0))
  /\ isScanning' = FALSE
  /\ charted' = <<>>
  /\ serial' = (serial /\ Len(passes) = 0)
  /\ lastPass' = NoPass
  /\ selectedStar' = <<>>
  /\ isAnalyzing' = FALSE
  /\ storage' = <<>>
  /\ timers' = [tick |-> IF upgrades = UPGRADES THEN timers.tick ELSE TICK_PERIOD,
                 save |-> SAVE_PERIOD]
  /\ UNCHANGED <<isLoaded, scans, passes, nextBodyId, nextConstId, now, analyses>>

Next ==
  \/ LoadGame
  \/ Gaze
  \/ Tick
  \/ ScanStart
  \/ ScanComplete
  \/ NameReturn
  \/ PerformReset

Spec == Init /\ [][Next]_vars

----------------------------------------------------------------------------
\* A game played one step at a time: every scan is started after the focus
\* has regenerated and is completed, and its reconciliation pass finished,
\* before the next one.  The fold applies the handlers' own operators.

SerialName == <<"json.name", 0, 0>>

RECURSIVE SerialPass(_, _, _)
\* a pass that runs alone, from the result r of its latest stretch to its end
SerialPass(st, clusters, r) ==
  IF r.status = "done"
  THEN [st EXCEPT !.constellations = IF r.hasChanges THEN r.updated ELSE @,
                  !.lastPass = [stars |-> st.stars, input |-> st.constellations,
                                result |-> r.updated, ran |-> TRUE]]
  ELSE LET cluster == clusters[r.k]
           newConstellation == [id |-> st.nextConstId, name |-> SerialName,
                                starIds |-> cluster, discoveredAt |-> st.now]
       IN  SerialPass([st EXCEPT
                         !.nextConstId = @ + 1,
                         !.data = @ + rewardData(cluster),
                         !.logs = addLog(@, LogEntry("constellation", SerialName,
                                                     rewardStarlight(cluster),
                                                     rewardData(cluster))),
                         !.charted = Append(@, Range(cluster))],
                      clusters,
                      RunClusters(clusters, r.k + 1,
                                  Append(r.updated, newConstellation), TRUE))

\* MAX_FOCUS_BASE ticks of the game loop, then handleScan and the pass it triggers
SerialScan(st, coords) ==
  LET newStars == Append(st.stars, NewBody(Len(st.stars) + 1, coords, OracleBody))
      p == StartPass(newStars, st.constellations)
      scanned == [st EXCEPT
                    !.stars = newStars,
                    !.now = @ + MAX_FOCUS_BASE,
                    !.data = @ + 5,
                    !.logs = addLog(addLog(@, LogEntry("info", NoName, 0, 0)),
                                    LogEntry("discovery", NoName, 0, 0))]
  IN  SerialPass(scanned, p.clusters, p)

RECURSIVE SerialPlay(_, _)
\* the game after the first n positions of cs have been scanned
SerialPlay(cs, n) ==
  IF n = 0
  THEN [stars |-> <<>>, constellations |-> <<>>, logs |-> <<>>,
        data |-> INITIAL_RESOURCES.data, nextConstId |-> 1, now |-> 0,
        charted |-> <<>>, lastPass |-> NoPass]
  ELSE SerialScan(SerialPlay(cs, n - 1), cs[n])

\* the state after such a game of n scans over coordSet, the focus back at its
\* maximum and the starlight gazed up to `light`
InitPlayed(n, coordSet, light) ==
  \E cs \in [1..n -> coordSet] :
    LET st == SerialPlay(cs, n)
    IN  /\ resources = [starlight |-> HALF * light, data |-> st.data,
                        focus |-> MAX_FOCUS_BASE]
        /\ stars = st.stars
        /\ constellations = st.constellations
        /\ upgrades = UPGRADES
        /\ logs = st.logs
        /\ isScanning = FALSE
        /\ isLoaded = TRUE
        /\ scans = 0
        /\ passes = <<>>
        /\ nextBodyId = n + 1
        /\ nextConstId = st.nextConstId
        /\ now = st.now + MAX_FOCUS_BASE
        /\ charted = st.charted
        /\ serial = TRUE
        /\ lastPass = st.lastPass
        /\ selectedStar = <<>>
        /\ isAnalyzing = FALSE
        /\ analyses = <<>>
        /\ storage = <<>>
        /\ timers = Armed

----------------------------------------------------------------------------
\* The last bodies of a sky of MergeBodies: all but MaxScans of them are
\* already reconciled, the others are still to be scanned.

InitMerge == InitPlayed(MergeBodies - MaxScans, Coords, PlayedStarlight)

ScanStartMerge == ScanStartUpTo(MergeBodies)

NextMerge ==
  \/ ScanStartMerge
  \/ ScanComplete
  \/ NameReturn

SpecMerge == InitMerge /\ [][NextMerge]_vars

----------------------------------------------------------------------------
\* Properties

MemberSet(c) == Range(c.starIds)

C2_MinThreeNoRepeat ==
  \A i \in 1..Len(constellations) :
    /\ Len(constellations[i].starIds) >= 3
    /\ Cardinality(MemberSet(constellations[i])) = Len(constellations[i].starIds)

\* A constellation that was extended by a fourth body.
C2_Witness ==
  \E i \in 1..Len(constellations) : Len(constellations[i].starIds) = 4

\* C3: a pass over the body list of the pass that finished last, given the
\* list that pass produced, runs to its end without a naming request (hence
\* without reward or event) and without a change to commit.
C3_Idempotent ==
  (lastPass.ran /\ lastPass.stars = stars /\ lastPass.result = constellations)
    => LET r == StartPass(stars, constellations)
       IN  r.status = "done" /\ ~r.hasChanges /\ r.updated = constellations

\* The last pass ran on the current four bodies and left a constellation.
C3_Witness ==
  /\ lastPass.ran /\ lastPass.stars = stars /\ lastPass.result = constellations
  /\ Len(stars) = 4
  /\ Len(constellations) >= 1

ClusterSets(currentStars) ==
  LET clusters == FindClusters(currentStars)
  IN  { Range(clusters[i]) : i \in 1..Len(clusters) }

\* C4: when every pass finished before the next body was added, then with no
\* pass suspended the member sets of the constellations are exactly the
\* clusters of the current body list, one constellation per cluster.
C4_MatchesClusters ==
  (serial /\ Len(passes) = 0)
    => /\ { MemberSet(constellations[i]) : i \in 1..Len(constellations) }
            = ClusterSets(stars)
       /\ Len(constellations) = Cardinality(ClusterSets(stars))

\* Four bodies added one pass at a time, ending in one cluster of four.
C4_Witness ==
  /\ serial /\ Len(passes) = 0
  /\ Len(stars) = 4
  /\ \E i \in 1..Len(constellations) : Cardinality(MemberSet(constellations[i])) = 4

\* C5: no pass starts while another is suspended at its naming request: at
\* most one pass is in progress.
C5_OnePassAtATime == Len(passes) <= 1

\* C6: no body is in the member sets of two constellations for which a
\* discovery event was issued since the last reset.
C6_RewardedOnce ==
  \A i, j \in 1..Len(charted) : i # j => charted[i] \cap charted[j] = {}

RECURSIVE Grow(_, _, _)
\* the indexes reachable from S in at most n steps of the adjacency relation
Grow(currentStars, S, n) ==
  IF n = 0 THEN S
  ELSE Grow(currentStars,
            S \cup { t \in 1..Len(currentStars) :
                       \E u \in S : t # u /\ Adjacent(currentStars[u], currentStars[t]) },
            n - 1)

\* the ids of the bodies joined to body i by a chain of adjacent bodies
ComponentOf(currentStars, i) ==
  { currentStars[t].id : t \in Grow(currentStars, {i}, Len(currentStars)) }

BigComponents(currentStars) ==
  { C \in { ComponentOf(currentStars, i) : i \in 1..Len(currentStars) } :
      Cardinality(C) >= 3 }

\* C7: the builder's output for the current body list is exactly the set of
\* connected components with at least 3 bodies, each output once and with no
\* id twice, and the clusters are pairwise disjoint.
C7_ConnectedComponents ==
  LET clusters == FindClusters(stars)
  IN  /\ { Range(clusters[k]) : k \in 1..Len(clusters) } = BigComponents(stars)
      /\ Len(clusters) = Cardinality(BigComponents(stars))
      /\ \A k \in 1..Len(clusters) :
           Cardinality(Range(clusters[k])) = Len(clusters[k])
      /\ \A k, l \in 1..Len(clusters) :
           k # l => Range(clusters[k]) \cap Range(clusters[l]) = {}

\* A cluster that holds two bodies which are not adjacent to each other.
C7_Witness ==
  \E X \in ClusterSets(stars) :
    \E a, b \in 1..Len(stars) :
      /\ stars[a].id \in X /\ stars[b].id \in X
      /\ a # b /\ ~Adjacent(stars[a], stars[b])

\* C8: no cluster of the builder's output has fewer than 3 members, and the
\* output is empty when there are fewer than 3 bodies or no component of 3.
C8_NoSmallClusters ==
  LET clusters == FindClusters(stars)
  IN  /\ \A k \in 1..Len(clusters) : Len(clusters[k]) >= 3
      /\ (Len(stars) < 3 \/ BigComponents(stars) = {}) => clusters = <<>>

\* Four bodies in two adjacent pairs: components, but none of size 3.
C8_Witness ==
  /\ Len(stars) = 4
  /\ \A i \in 1..Len(stars) : Cardinality(ComponentOf(stars, i)) = 2
  /\ FindClusters(stars) = <<>>

ConstIds(list) == { list[j].id : j \in 1..Len(list) }

\* C9: a step that creates a constellation is the resumption of a pass whose
\* current cluster (of size n) shares no member with any constellation of the
\* pass's list; the list gains exactly one constellation, with an unused id
\* and the cluster as member set; 50 + 10n starlight and 20 + 5n data are
\* credited and exactly one discovery event carrying those amounts is logged.
C9_NewConstellation ==
  [][ nextConstId' # nextConstId =>
        \E i \in 1..Len(passes) :
          LET p == passes[i]
              cluster == p.clusters[p.k]
              n == Len(cluster)
              list == IF Len(passes') < Len(passes) THEN constellations'
                      ELSE passes'[i].updated
              fresh == { j \in 1..Len(list) : list[j].id = nextConstId }
          IN  /\ \A j \in 1..Len(p.updated) :
                   MemberSet(p.updated[j]) \cap Range(cluster) = {}
              /\ nextConstId \notin ConstIds(constellations)
              /\ \A q \in 1..Len(passes) : nextConstId \notin ConstIds(passes[q].updated)
              /\ Cardinality(fresh) = 1
              /\ \A j \in fresh : MemberSet(list[j]) = Range(cluster)
              /\ ConstIds(list) \subseteq ConstIds(p.updated) \cup {nextConstId}
              /\ p.k = Len(p.clusters) =>
                   /\ Len(list) = Len(p.updated) + 1
                   /\ SubSeq(list, 1, Len(p.updated)) = p.updated
              /\ resources'.starlight = resources.starlight + HALF * (50 + 10 * n)
              /\ resources'.data = resources.data + (20 + 5 * n)
              /\ resources'.focus = resources.focus
              /\ logs'[1].type = "constellation"
              /\ logs'[1].light = 50 + 10 * n
              /\ logs'[1].data = 20 + 5 * n
              /\ Len(logs) < LOG_CAP =>
                   /\ Len(logs') = Len(logs) + 1
                   /\ SubSeq(logs', 2, Len(logs')) = logs
    ]_vars

\* Scenario A: one constellation of the 3 bodies, 80 starlight and 35 data
\* just credited and logged.
C9_Witness ==
  /\ Len(constellations) = 1
  /\ Len(constellations[1].starIds) = 3
  /\ Len(charted) = 1
  /\ Len(logs) > 0
  /\ logs[1].type = "constellation" /\ logs[1].light = 80 /\ logs[1].data = 35
  /\ resources.starlight >= HALF * 80
  /\ resources.data >= 35

\* the constellations of the committed list that share a member with X
Hits(X) == { j \in 1..Len(constellations) : MemberSet(constellations[j]) \cap X # {} }

\* C10: when a body is added and a pass runs to its end on it, every cluster
\* that overlaps exactly one constellation and has ids it lacks leaves that
\* constellation, in place, with the union of its members and the cluster;
\* a constellation no cluster extends or merges is unchanged; the step logs
\* the body's discovery only and credits only the scan's 5 data.
C10_Extend ==
  [][ (Len(stars') = Len(stars) + 1 /\ Len(passes') = Len(passes)) =>
        \A X \in ClusterSets(stars') :
          (Cardinality(Hits(X)) = 1
             /\ \A j \in Hits(X) : ~(X \subseteq MemberSet(constellations[j])))
          => /\ Len(constellations') = Len(constellations)
             /\ \A j \in Hits(X) :
                  /\ constellations'[j].id = constellations[j].id
                  /\ MemberSet(constellations'[j]) = MemberSet(constellations[j]) \cup X
             /\ \A j \in 1..Len(constellations) :
                  (\A Y \in ClusterSets(stars') :
                     j \in Hits(Y) =>
                       (Cardinality(Hits(Y)) = 1 /\ Y \subseteq MemberSet(constellations[j])))
                  => constellations'[j] = constellations[j]
             /\ nextConstId' = nextConstId
             /\ charted' = charted
             /\ logs'[1].type = "discovery"
             /\ Len(logs) < LOG_CAP => Len(logs') = Len(logs) + 1
             /\ resources'.starlight = resources.starlight
             /\ resources'.data = resources.data + 5
             /\ resources'.focus = resources.focus
    ]_vars

\* Scenario C: the constellation of bodies 1, 2, 3 now holds body 4 too, in
\* the state right after body 4's discovery.
C10_Witness ==
  /\ Len(stars) = 4
  /\ Len(constellations) = 1
  /\ constellations[1].starIds = <<1, 2, 3, 4>> \/ MemberSet(constellations[1]) = {1, 2, 3, 4}
  /\ Len(charted) = 1 /\ Cardinality(charted[1]) = 3
  /\ logs[1].type = "discovery"

----------------------------------------------------------------------------
\* A sky over SkyCoords: all but MaxScans of SkyBodies are already
\* reconciled, the others are still to be scanned.

InitSky == InitPlayed(SkyBodies - MaxScans, SkyCoords, PlayedStarlight)

ScanStartSky == ScanStartUpTo(SkyBodies)

ScanCompleteSky == ScanCompleteAt(SkyCoords)

NextSky ==
  \/ ScanStartSky
  \/ ScanCompleteSky
  \/ NameReturn

SpecSky == InitSky /\ [][NextSky]_vars

----------------------------------------------------------------------------
\* Selection and analysis of a body

\* what analyzeCelestialBody may return: the oracle's text, or one of its two
\* fixed sentences
AnalysisTexts == {"response.text", "Analysis inconclusive.",
                  "Data corrupted. Unable to complete analysis."}

\* Math.floor(50 * (1 - Math.min(0.5, processorLevel * 0.1)))
analyzeCost == 50 - 5 * Min(5, Level("quantum_processor"))

\* description + "\n\nAnalysis: " + detailedAnalysis, analyzed: true
Analyzed(s, text) ==
  [s EXCEPT !.description = Append(@, text), !.analyzed = TRUE]

\* a click on body i of the star map: onSelectStar(d)
SelectStar ==
  /\ isLoaded
  /\ \E i \in 1..Len(stars) :
       /\ selectedStar # <<stars[i]>>
       /\ selectedStar' = <<stars[i]>>
  /\ UNCHANGED <<storage, timers>>
  /\ UNCHANGED <<resources, stars, constellations, upgrades, logs, isScanning, isLoaded,
                 scans, passes, nextBodyId, nextConstId, now, charted, serial, lastPass,
                 isAnalyzing, analyses>>

\* the close button of the detail panel: setSelectedStar(null)
CloseStar ==
  /\ isLoaded
  /\ selectedStar # <<>>
  /\ selectedStar' = <<>>
  /\ UNCHANGED <<storage, timers>>
  /\ UNCHANGED <<resources, stars, constellations, upgrades, logs, isScanning, isLoaded,
                 scans, passes, nextBodyId, nextConstId, now, charted, serial, lastPass,
                 isAnalyzing, analyses>>

\* handleAnalyze up to its await, called from the Analyze button, which is
\* disabled while the data is below 50 (never below the cost, so the
\* handler's own insufficient-data return is not taken)
AnalyzeStart ==
  /\ isLoaded
  /\ selectedStar # <<>>
  /\ ~(selectedStar[1].analyzed \/ resources.data < 50 \/ isAnalyzing)
  /\ ~(resources.data < analyzeCost)
  /\ isAnalyzing' = TRUE
  /\ resources' = [resources EXCEPT !.data = @ - analyzeCost]
  /\ logs' = addLog(logs, LogEntry("info", NoName, 0, 0))
  /\ analyses' = Append(analyses, selectedStar[1])
  /\ RearmSave
  /\ UNCHANGED <<stars, constellations, upgrades, isScanning, isLoaded, scans, passes,
                 nextBodyId, nextConstId, now, charted, serial, lastPass, selectedStar>>

AnalyzeCompleteMutant ==
  /\ \E i \in 1..Len(analyses) : \E text \in AnalysisTexts :
       /\ selectedStar # <<>>
       /\ stars' = [j \in 1..Len(stars) |->
                      IF stars[j].id = selectedStar[1].id THEN Analyzed(stars[j], text)
                      ELSE stars[j]]
       /\ selectedStar' = <<Analyzed(selectedStar[1], text)>>
       /\ analyses' = [j \in 1..(Len(analyses) - 1) |->
                         IF j < i THEN analyses[j] ELSE analyses[j + 1]]
  /\ logs' = addLog(logs, LogEntry("discovery", NoName, 0, 0))
  /\ isAnalyzing' = FALSE
  /\ RearmSave
  /\ UNCHANGED <<resources, constellations, upgrades, isScanning, isLoaded, scans, passes,
                 nextBodyId, nextConstId, now, charted, serial, lastPass>>

\* handleAnalyze from the return of analyzeCelestialBody (which catches its
\* own failures) to its end; the body list keeps its length, so the
\* constellation trigger effect does not run
AnalyzeComplete ==
  /\ \E i \in 1..Len(analyses) : \E text \in AnalysisTexts :
       /\ stars' = [j \in 1..Len(stars) |->
                      IF stars[j].id = analyses[i].id THEN Analyzed(stars[j], text)
                      ELSE stars[j]]
       /\ selectedStar' = IF selectedStar # <<>>
                          THEN <<Analyzed(selectedStar[1], text)>> ELSE <<>>
       /\ analyses' = [j \in 1..(Len(analyses) - 1) |->
                         IF j < i THEN analyses[j] ELSE analyses[j + 1]]
  /\ logs' = addLog(logs, LogEntry("discovery", NoName, 0, 0))
  /\ isAnalyzing' = FALSE
  /\ RearmSave
  /\ UNCHANGED <<resources, constellations, upgrades, isScanning, isLoaded, scans, passes,
                 nextBodyId, nextConstId, now, charted, serial, lastPass>>

\* A sky of AnalyzeBodies: all but MaxScans of them are already reconciled;
\* the others are scanned while bodies are selected and analysed and the
\* game is reset.
InitAnalyze == InitPlayed(AnalyzeBodies - MaxScans, Coords, PlayedStarlight)

ScanStartAnalyze == ScanStartUpTo(AnalyzeBodies)

NextAnalyze ==
  \/ ScanStartAnalyze
  \/ ScanComplete
  \/ NameReturn
  \/ SelectStar
  \/ CloseStar
  \/ AnalyzeStart
  \/ AnalyzeComplete
  \/ PerformReset

SpecAnalyze == InitAnalyze /\ [][NextAnalyze]_vars

\* The same sky with scans, passes and resets only, and every naming request
\* eventually returning: generateConstellationName resolves with the
\* oracle's answer or, from its catch, with a fallback name.
NextPasses ==
  \/ ScanStartAnalyze
  \/ ScanComplete
  \/ NameReturn
  \/ PerformReset

SpecPasses == InitAnalyze /\ [][NextPasses]_vars /\ WF_vars(NameReturn)

\* A played sky on which two further scans can each complete a cluster, with
\* the naming request drawing from NameRand values of every Math.random().
InitNames == InitPlayed(NameBodies - MaxScans, Coords, PlayedStarlight)

ScanStartNames == ScanStartUpTo(NameBodies)

NameReturnDrawn ==
  NameReturnWith([n \in 0..nextBodyId |-> generateConstellationNameDrawn(n)])

NextNames ==
  \/ ScanStartNames
  \/ ScanComplete
  \/ NameReturnDrawn

SpecNames == InitNames /\ [][NextNames]_vars

----------------------------------------------------------------------------
\* Upgrades

\* baseCost, costMultiplier (in tenths) and maxLevel of the UPGRADES records
UpgradeDefs ==
  [lens_polishing    |-> [baseCost |-> 15,  costMultiplier |-> 15, maxLevel |-> 50],
   optical_servos    |-> [baseCost |-> 100, costMultiplier |-> 14, maxLevel |-> 30],
   sensor_array      |-> [baseCost |-> 50,  costMultiplier |-> 14, maxLevel |-> 20],
   focus_condenser   |-> [baseCost |-> 100, costMultiplier |-> 16, maxLevel |-> 10],
   stabilizers       |-> [baseCost |-> 300, costMultiplier |-> 17, maxLevel |-> 10],
   scan_matrix       |-> [baseCost |-> 500, costMultiplier |-> 20, maxLevel |-> 5],
   quantum_processor |-> [baseCost |-> 200, costMultiplier |-> 18, maxLevel |-> 5]]

RECURSIVE Pow(_, _)
Pow(b, e) == IF e = 0 THEN 1 ELSE b * Pow(b, e - 1)

\* Math.floor(upgrade.baseCost * Math.pow(upgrade.costMultiplier, upgrade.level))
UpgradeCost(id, level) ==
  (UpgradeDefs[id].baseCost * Pow(UpgradeDefs[id].costMultiplier, level)) \div Pow(10, level)

buyUpgradeMutant(upgradeId) ==
  IF upgradeId \notin UpgradeIds
  THEN UNCHANGED vars
  ELSE LET cost == UpgradeCost(upgradeId, Level(upgradeId))
       IN  IF resources.starlight >= HALF * cost
           THEN /\ resources' = [resources EXCEPT !.starlight = @ - HALF * cost]
                /\ upgrades' = [upgrades EXCEPT ![upgradeId] = @ + 1]
                /\ logs' = addLog(logs, LogEntry("upgrade", NoName, 0, 0))
                /\ timers' = Armed
                /\ UNCHANGED <<stars, constellations, isScanning, isLoaded, scans,
                               passes, nextBodyId, nextConstId, now, charted, serial,
                               lastPass, analysisVars, storage>>
           ELSE UNCHANGED vars

\* buyUpgrade(upgradeId): nothing happens for an id UPGRADES does not have,
\* a cost the starlight does not cover or a level at its maximum; the new
\* upgrades array of a purchase re-arms the game loop's interval too
buyUpgrade(upgradeId) ==
  IF upgradeId \notin UpgradeIds
  THEN UNCHANGED vars
  ELSE LET cost == UpgradeCost(upgradeId, Level(upgradeId))
       IN  IF resources.starlight >= HALF * cost
              /\ Level(upgradeId) < UpgradeDefs[upgradeId].maxLevel
           THEN /\ resources' = [resources EXCEPT !.starlight = @ - HALF * cost]
                /\ upgrades' = [upgrades EXCEPT ![upgradeId] = @ + 1]
                /\ logs' = addLog(logs, LogEntry("upgrade", NoName, 0, 0))
                /\ timers' = Armed
                /\ UNCHANGED <<stars, constellations, isScanning, isLoaded, scans,
                               passes, nextBodyId, nextConstId, now, charted, serial,
                               lastPass, analysisVars, storage>>
           ELSE UNCHANGED vars

\* a click on an upgrade button, or a call with any other id; limit bounds
\* the level an upgrade is bought from
BuyUpgradeUpTo(ids, limit) ==
  /\ isLoaded
  /\ \E upgradeId \in ids :
       /\ upgradeId \in UpgradeIds => Level(upgradeId) < limit
       /\ buyUpgrade(upgradeId)

BuyUpgrade == BuyUpgradeUpTo(UpgradeIds, MaxLevel)

----------------------------------------------------------------------------
\* Buying. The page is opened over the snapshot of a long game: the quantum
\* processor is one level below its maximum and the starlight pays for more
\* than its last level. Every upgrade button is pressed, buyUpgrade is also
\* called with an id that UPGRADES does not have, and the game is reset.
UpgradeGame ==
  LET st == SerialPlay([i \in 1..3 |-> [x |-> 0, y |-> 0]], 3)
  IN  Stringify([starlight |-> HALF * UpgradeStarlight, data |-> st.data,
                 focus |-> MAX_FOCUS_BASE],
                st.stars, st.constellations,
                [UPGRADES EXCEPT !["quantum_processor"] =
                                    UpgradeDefs["quantum_processor"].maxLevel - 1],
                st.logs)

InitUpgrades == FreshPage(<<UpgradeGame>>, ResetBodies, 2)

BuyUpgradeAny == BuyUpgradeUpTo(UpgradeIds \cup {"warp_drive"}, UpgradeLevels)

NextUpgrades ==
  \/ LoadGame
  \/ BuyUpgradeAny
  \/ PerformReset

SpecUpgrades == InitUpgrades /\ [][NextUpgrades]_vars

----------------------------------------------------------------------------
\* Saving and loading. Either a game of SaveBodies - 1 scans at one
\* place is on the screen and nothing is stored, or the page has just been
\* opened over a stored text: one that does not parse, or the snapshot of a
\* small game with some of its members left out.

SavePlace == { [x |-> 0, y |-> 0] }

StoredGame ==
  LET st == SerialPlay([i \in 1..3 |-> [x |-> 0, y |-> 0]], 3)
  IN  Stringify([starlight |-> HALF * SaveStarlight + 1, data |-> st.data,
                 focus |-> MAX_FOCUS_BASE],
                st.stars, st.constellations,
                [UPGRADES EXCEPT !["lens_polishing"] = 1, !["quantum_processor"] = 2],
                st.logs)

\* the stored text without the members of `missing`
Without(text, missing) == [f \in DOMAIN text \ missing |-> text[f]]

StoredTexts ==
  { Unparseable, Without(StoredGame, DOMAIN StoredGame) }
    \cup { Without(StoredGame, {f}) : f \in DOMAIN StoredGame }

InitSave ==
  \/ InitPlayed(SaveBodies - 1, SavePlace, SaveStarlight)
  \/ \E text \in StoredTexts : FreshPage(<<text>>, SaveBodies, 2)

ScanStartSave == ScanStartUpTo(SaveBodies)

ScanCompleteSave == ScanCompleteAt(SavePlace)

NextSave ==
  \/ LoadGame
  \/ BuyUpgrade
  \/ ScanStartSave
  \/ ScanCompleteSave
  \/ NameReturn
  \/ Stall
  \/ AutoSave
  \/ PerformReset
  \/ Reload

SpecSave == InitSave /\ [][NextSave]_vars

\* The stored game is loaded, one more body is scanned, bodies are selected
\* and analysed, the game is saved, and it is reset at any moment.
InitReset == FreshPage(<<StoredGame>>, ResetBodies, 2)

ScanStartReset == ScanStartUpTo(ResetBodies)

NextReset ==
  \/ LoadGame
  \/ ScanStartReset
  \/ ScanCompleteSave
  \/ SelectStar
  \/ CloseStar
  \/ AnalyzeStart
  \/ AnalyzeComplete
  \/ Stall
  \/ AutoSave
  \/ PerformReset

SpecReset == InitReset /\ [][NextReset]_vars

\* The page with its two intervals: the time passes, a callback runs when its
\* interval is due, the player gazes. A stall of the page may happen and is
\* not bound to.
NextTimers ==
  \/ LoadGame
  \/ Gaze
  \/ TimePasses
  \/ GameLoop
  \/ Stall
  \/ AutoSave

SpecTimers ==
  /\ Init
  /\ [][NextTimers]_vars
  /\ WF_vars(LoadGame)
  /\ WF_vars(TimePasses)
  /\ WF_vars(GameLoop)
  /\ SF_vars(AutoSave)

----------------------------------------------------------------------------
\* Earning and spending. A game of two bodies at one place, with the
\* starlight for one of the dearer upgrades: the game loop runs, a third body
\* is scanned and completes a constellation, bodies are analysed, upgrades
\* are bought, and the game is reset and gazing starts again.
InitResources == InitPlayed(ResBodies - 1, SavePlace, ResStarlight)

\* the game played so far took ResBodies * MAX_FOCUS_BASE periods
TickResources == TickUpTo(ResBodies * MAX_FOCUS_BASE + ResTime)

ScanStartResources == ScanStartUpTo(ResBodies)

NextResources ==
  \/ Gaze
  \/ TickResources
  \/ BuyUpgrade
  \/ ScanStartResources
  \/ ScanCompleteSave
  \/ NameReturn
  \/ SelectStar
  \/ AnalyzeStart
  \/ AnalyzeComplete
  \/ PerformReset

SpecResources == InitResources /\ [][NextResources]_vars

----------------------------------------------------------------------------
\* The same sky again, with every outcome of the discovery request.
ScanCompleteAny ==
  ScanCompleteFrom(Coords, generateCelestialDiscovery([x |-> 0, y |-> 0], Len(stars)))

NextScans ==
  \/ ScanStartAnalyze
  \/ ScanCompleteAny
  \/ NameReturn
  \/ PerformReset

SpecScans == InitAnalyze /\ [][NextScans]_vars

----------------------------------------------------------------------------
\* the least element of a non-empty set of indices
First(S) == CHOOSE j \in S : \A k \in S : j <= k

\* the ids of a constellation list, in list order
IdsOf(list) == [j \in 1..Len(list) |-> list[j].id]

\* C11: when a body is added and a pass runs to its end on it, every cluster
\* that overlaps two or more constellations leaves the first of them in list
\* order holding the union of the members of all the overlapping ones and of
\* the cluster; every other overlapping constellation is gone from the list;
\* a constellation no cluster overlaps is unchanged and the survivors keep
\* their order; no constellation id is issued, no reward is credited and the
\* step logs the body's discovery only.
C11_Merge ==
  [][ (Len(stars') = Len(stars) + 1 /\ Len(passes') = Len(passes)) =>
        \A X \in ClusterSets(stars') :
          Cardinality(Hits(X)) >= 2
          => LET first == First(Hits(X))
                 union == X \cup UNION { MemberSet(constellations[j]) : j \in Hits(X) }
                 Survives(id) == \A j \in Hits(X) \ {first} : constellations[j].id # id
             IN  /\ \E j \in 1..Len(constellations') :
                      /\ constellations'[j].id = constellations[first].id
                      /\ MemberSet(constellations'[j]) = union
                      /\ Len(constellations'[j].starIds) = Cardinality(union)
                 /\ \A j \in Hits(X) \ {first} :
                      constellations[j].id \notin ConstIds(constellations')
                 /\ \A j \in 1..Len(constellations) :
                      (\A Y \in ClusterSets(stars') : j \notin Hits(Y))
                      => \E k \in 1..Len(constellations') :
                           constellations'[k] = constellations[j]
                 /\ IdsOf(constellations') = SelectSeq(IdsOf(constellations), Survives)
                 /\ nextConstId' = nextConstId
                 /\ charted' = charted
                 /\ resources' = [resources EXCEPT !.data = @ + 5]
                 /\ logs'[1].type = "discovery"
                 /\ \A k \in 1..Len(logs') : logs'[k].type # "constellation" =>
                      logs'[k].light = 0 /\ logs'[k].data = 0
                 /\ Len(logs) < LOG_CAP =>
                      /\ Len(logs') = Len(logs) + 1
                      /\ SubSeq(logs', 2, Len(logs')) = logs
    ]_vars

\* Scenario D: two constellations of 3 bodies each were rewarded, a seventh
\* body bridged them, and one constellation, the first, holds all 7 ids.
C11_Witness ==
  /\ Len(stars) = 7
  /\ Len(charted) = 2
  /\ Len(lastPass.input) = 2
  /\ Len(constellations) = 1
  /\ constellations[1].id = lastPass.input[1].id
  /\ MemberSet(constellations[1]) = 1..7
  /\ logs[1].type = "discovery"

\* the text of a name is not empty
NonEmptyName(name) ==
  \/ name[1] = "json.name"
  \/ name[1] = "Cluster" /\ name[2] \in Nat
  \/ name[1] = "fallback" /\ name[2] \in 1..Len(Prefixes) /\ name[3] \in 1..Len(Roots)
       /\ Prefixes[name[2]] # "" /\ Roots[name[3]] # ""

\* C12: every return of a naming request, the failed ones included, resumes
\* its pass: the pass's list gains a constellation for the cluster (size n)
\* with a non-empty name, 50 + 10n starlight and 20 + 5n data are credited,
\* and the entry logged is the discovery event, never an error or a warning.
C12_NamingFailure ==
  [][ (stars' = stars /\ passes' # passes) =>
        \E i \in 1..Len(passes) :
          LET p == passes[i]
              cluster == p.clusters[p.k]
              n == Len(cluster)
              list == IF Len(passes') < Len(passes) THEN constellations'
                      ELSE passes'[i].updated
          IN  /\ \E j \in 1..Len(list) :
                   /\ list[j].id = nextConstId
                   /\ list[j].starIds = cluster
                   /\ NonEmptyName(list[j].name)
                   /\ logs'[1].name = list[j].name
              /\ resources'.starlight = resources.starlight + HALF * (50 + 10 * n)
              /\ resources'.data = resources.data + (20 + 5 * n)
              /\ logs'[1].type = "constellation"
              /\ Len(passes') = Len(passes) => passes'[i].k > p.k
    ]_vars

\* The oracle failed and a constellation named from the fallback pools was
\* committed, its reward of 80 starlight and 35 data logged.
C12_Witness ==
  /\ Len(constellations) = 1
  /\ constellations[1].name[1] = "fallback"
  /\ Len(constellations[1].starIds) = 3
  /\ logs[1].type = "constellation" /\ logs[1].name = constellations[1].name
  /\ logs[1].light = 80 /\ logs[1].data = 35
  /\ resources.starlight >= HALF * 80

\* the step is a full reset: the log is cleared down to the reset warning
IsReset == Len(logs') = 1 /\ logs'[1].type = "warning"

\* C13: outside a full reset, every step that commits a constellation list
\* leaves each id present before and after with a superset of its members,
\* and each id that disappears has all its members inside a constellation
\* that remains.
C13_NeverShrinks ==
  [][ (constellations' # constellations /\ ~IsReset) =>
        \A j \in 1..Len(constellations) :
          \/ \E k \in 1..Len(constellations') :
               /\ constellations'[k].id = constellations[j].id
               /\ MemberSet(constellations[j]) \subseteq MemberSet(constellations'[k])
          \/ /\ constellations[j].id \notin ConstIds(constellations')
             /\ \E k \in 1..Len(constellations') :
                  MemberSet(constellations[j]) \subseteq MemberSet(constellations'[k])
    ]_vars

\* C14: every step that commits a constellation list leaves each id present
\* before and after with the same name and the same creation timestamp.
C14_Identity ==
  [][ \A j \in 1..Len(constellations) : \A k \in 1..Len(constellations') :
        constellations'[k].id = constellations[j].id
        => /\ constellations'[k].name = constellations[j].name
           /\ constellations'[k].discoveredAt = constellations[j].discoveredAt
    ]_vars

\* A constellation of the earlier game was the target of a merge: it holds
\* all 7 bodies and still has the creation time of its first 3.
C14_Witness ==
  /\ Len(stars) = 7
  /\ Len(constellations) = 1
  /\ MemberSet(constellations[1]) = 1..7
  /\ Len(charted) = 2
  /\ constellations[1].name = SerialName
  /\ constellations[1].discoveredAt < now
  /\ constellations[1].discoveredAt = lastPass.input[1].discoveredAt

\* C15: when a body is added and the sky then has fewer than 3 bodies, or no
\* connected component of 3 or more, the pass it triggers changes nothing: the
\* constellation list is as before, no naming request is pending that was
\* not before, no id is issued and nothing is rewarded; the resources and the
\* log change by the scan's own 5 data and discovery entry only.
C15_NoOp ==
  [][ (Len(stars') = Len(stars) + 1
         /\ (Len(stars') < 3 \/ BigComponents(stars') = {})) =>
        /\ constellations' = constellations
        /\ passes' = passes
        /\ nextConstId' = nextConstId
        /\ charted' = charted
        /\ resources' = [resources EXCEPT !.data = @ + 5]
        /\ logs' = addLog(logs, LogEntry("discovery", NoName, 0, 0))
        /\ lastPass'.ran /\ lastPass'.stars = stars' /\ lastPass'.result = constellations
    ]_vars

\* Scenario B with a third body: 3 bodies, two of them adjacent, the third
\* 300 away from them; the pass ran over them and there is no constellation.
C15_Witness ==
  /\ Len(stars) = 3
  /\ BigComponents(stars) = {}
  /\ \E a, b \in 1..3 : a # b /\ Adjacent(stars[a], stars[b])
  /\ lastPass.ran /\ lastPass.stars = stars
  /\ constellations = <<>>
  /\ passes = <<>>
  /\ nextConstId = 1
  /\ logs[1].type = "discovery"

\* C16: once the game is loaded, every step that lengthens the body list
\* starts a pass over the list that includes the new body and over the
\* constellation list committed before the step (the pass either runs to its
\* end within the step or suspends at a naming request); a step that changes
\* the body list without changing its length starts no pass.
C16_Trigger ==
  [][ /\ (isLoaded /\ Len(stars') > Len(stars)) =>
           \/ /\ passes' = passes
              /\ lastPass'.ran
              /\ lastPass'.stars = stars'
              /\ lastPass'.input = constellations
           \/ /\ Len(passes') = Len(passes) + 1
              /\ SubSeq(passes', 1, Len(passes)) = passes
              /\ passes'[Len(passes')].currentStars = stars'
              /\ passes'[Len(passes')].currentConstellations = constellations
      /\ (stars' # stars /\ Len(stars') = Len(stars)) =>
           /\ passes' = passes
           /\ lastPass' = lastPass
           /\ constellations' = constellations
           /\ nextConstId' = nextConstId
    ]_vars

\* A body was analysed while a pass started by the latest scan was
\* suspended on that scan's body list: the analysis started no other pass.
C16_Witness ==
  /\ \E j \in 1..Len(stars) : stars[j].analyzed
  /\ Len(passes) = 1
  /\ Len(passes[1].currentStars) = Len(stars)
  /\ passes[1].currentStars # stars
  /\ passes[1].currentStars[Len(stars)].id = stars[Len(stars)].id

\* C17: while a pass is suspended at the naming request for a cluster, no
\* reward has been credited for that cluster's member set and no
\* constellation of the committed list has that member set.
C17_PendingUncommitted ==
  \A i \in 1..Len(passes) :
    LET cluster == Range(passes[i].clusters[passes[i].k])
    IN  /\ \A q \in 1..Len(charted) : charted[q] # cluster
        /\ \A j \in 1..Len(constellations) : MemberSet(constellations[j]) # cluster

\* C18: provided every naming request eventually returns, whenever passes
\* are suspended they eventually have all finished; a pass leaves the set of
\* suspended passes only by running to its end, which commits its result,
\* and no scan and no reset removes or alters a suspended pass.
C18_PassFinishes ==
  /\ (Len(passes) > 0) ~> (Len(passes) = 0)
  /\ [][ (Len(passes') < Len(passes) =>
             /\ Len(passes') = Len(passes) - 1
             /\ \E i \in 1..Len(passes) :
                  /\ \A j \in 1..Len(passes') :
                       passes'[j] = IF j < i THEN passes[j] ELSE passes[j + 1]
                  /\ lastPass'.ran
                  /\ lastPass'.stars = passes[i].currentStars
                  /\ constellations' = lastPass'.result
                  /\ Len(constellations') > 0)
          /\ ((stars' # stars \/ IsReset) =>
                SubSeq(passes', 1, Len(passes)) = passes)
        ]_vars

\* A pass was suspended when the game was reset; its naming request then
\* failed, and the pass still finished and committed its constellation.
C18_Witness ==
  /\ passes = <<>>
  /\ stars = <<>>
  /\ lastPass.ran
  /\ Len(constellations) = 1
  /\ lastPass.result = constellations
  /\ constellations[1].name[1] = "fallback"

\* the body list in the order perm
Reordered(currentStars, perm) == [i \in 1..Len(currentStars) |-> currentStars[perm[i]]]

\* C19: for the current body list, every ordering of it (its own included)
\* gives the builder the same clusters, each taken as a set of ids.
C19_OrderIndependent ==
  \A perm \in Permutations(1..Len(stars)) :
    ClusterSets(Reordered(stars, perm)) = ClusterSets(stars)

\* A sky of 4 bodies with a cluster and a body outside it, and an ordering
\* of it in which the builder lists the cluster's ids in another order.
C19_Witness ==
  /\ Len(stars) = 4
  /\ \E X \in ClusterSets(stars) : Cardinality(X) = 3
  /\ \E perm \in Permutations(1..Len(stars)) :
       /\ FindClusters(Reordered(stars, perm)) # FindClusters(stars)
       /\ ClusterSets(Reordered(stars, perm)) = ClusterSets(stars)

\* the square of the Euclidean distance between bodies i and j of the list
DistSq(currentStars, i, j) ==
  (currentStars[i].coordinates.x - currentStars[j].coordinates.x)
    * (currentStars[i].coordinates.x - currentStars[j].coordinates.x)
  + (currentStars[i].coordinates.y - currentStars[j].coordinates.y)
    * (currentStars[i].coordinates.y - currentStars[j].coordinates.y)

\* C20: in the adjacency lists built for the current body list, two
\* different bodies are neighbours iff their distance is strictly less than
\* 180 (32400 on the squares); the relation is symmetric; a pair at exactly
\* 180 is not adjacent; and when no two bodies are closer than 180 the
\* builder finds no cluster.
C20_StrictThreshold ==
  LET adj == BuildAdj(stars)
      Linked(i, j) == stars[j].id \in Range(adj[stars[i].id])
  IN  /\ \A i, j \in 1..Len(stars) :
           i # j =>
             /\ Linked(i, j) <=> DistSq(stars, i, j) < 32400
             /\ Linked(i, j) <=> Linked(j, i)
             /\ DistSq(stars, i, j) = 32400 => ~Linked(i, j)
      /\ (\A i, j \in 1..Len(stars) : i # j => DistSq(stars, i, j) >= 32400)
           => FindClusters(stars) = <<>>

\* Three bodies in a row, each exactly 180 from the next: the pass ran over
\* them and there is no constellation.
C20_Witness ==
  /\ Len(stars) = 3
  /\ { stars[i].coordinates : i \in 1..3 }
       = { [x |-> 0, y |-> 0], [x |-> 180, y |-> 0], [x |-> 360, y |-> 0] }
  /\ lastPass.ran /\ lastPass.stars = stars
  /\ constellations = <<>>
  /\ passes = <<>>

\* the ids of a body list
BodyIds(currentStars) == { currentStars[i].id : i \in 1..Len(currentStars) }

\* C21: a step that lengthens the body list appends exactly one body, whose
\* id is none of the ids in the list, and ends one started scan; a step that
\* shortens the list is a full reset; any other step leaves the bodies, by
\* position and id, in place; the ids of the list are pairwise different.
C21_GrowsByScan ==
  [][ /\ Len(stars') > Len(stars) =>
           /\ Len(stars') = Len(stars) + 1
           /\ SubSeq(stars', 1, Len(stars)) = stars
           /\ stars'[Len(stars')].id \notin BodyIds(stars)
           /\ scans > 0
           /\ scans' = scans - 1
      /\ Len(stars') < Len(stars) => (IsReset /\ stars' = <<>>)
      /\ Len(stars') = Len(stars) =>
           /\ \A i \in 1..Len(stars) : stars'[i].id = stars[i].id
           /\ scans' >= scans
      /\ Cardinality(BodyIds(stars')) = Len(stars')
    ]_vars

\* After a reset, two scans have each appended one body, with ids that the
\* body discovered before the reset did not have.
C21_Witness ==
  /\ Len(stars) = 2
  /\ stars[1].id = 2
  /\ stars[2].id = 3
  /\ scans = 0

\* C22: outside a full reset every body keeps its id and its coordinates and
\* an analyzed body stays analyzed; a step that changes the body list and
\* keeps its length ends one analysis and changes only the body that was
\* selected when that analysis started: its flag is set and its description
\* is extended by the analysis text; every other body is unchanged.
C22_BodiesImmutable ==
  [][ /\ Len(stars') >= Len(stars) =>
           \A i \in 1..Len(stars) :
             /\ stars'[i].id = stars[i].id
             /\ stars'[i].coordinates = stars[i].coordinates
             /\ stars[i].analyzed => stars'[i].analyzed
      /\ (stars' # stars /\ Len(stars') = Len(stars)) =>
           \E a \in 1..Len(analyses) :
             /\ Len(analyses') = Len(analyses) - 1
             /\ \A i \in 1..Len(stars) :
                  IF stars[i].id = analyses[a].id
                  THEN /\ stars'[i].analyzed
                       /\ Len(stars'[i].description) = Len(stars[i].description) + 1
                       /\ SubSeq(stars'[i].description, 1, Len(stars[i].description))
                            = stars[i].description
                       /\ stars'[i].description[Len(stars'[i].description)]
                            \in AnalysisTexts
                  ELSE stars'[i] = stars[i]
    ]_vars

\* An analysis of one body finished while another body was selected: only
\* the first is analyzed in the list.
C22_Witness ==
  /\ selectedStar # <<>>
  /\ \E i \in 1..Len(stars) :
       /\ stars[i].analyzed
       /\ Len(stars[i].description) = 1
       /\ stars[i].id # selectedStar[1].id
       /\ \A j \in 1..Len(stars) : j # i => ~stars[j].analyzed
  /\ analyses = <<>>

\* C27: every member id of every constellation of the committed list is the
\* id of a body of the body list.
C27_MembersExist ==
  \A j \in 1..Len(constellations) : MemberSet(constellations[j]) \subseteq BodyIds(stars)

\* C28: for every constellation created and rewarded since the last reset,
\* a constellation of the committed list holds all its members.
C28_RewardedIsCommitted ==
  \A q \in 1..Len(charted) :
    \E j \in 1..Len(constellations) : charted[q] \subseteq MemberSet(constellations[j])

\* C29: at most one invocation of handleScan is between its start and its
\* completion.
C29_OneScan == scans <= 1

C24_FallbackDeterministic ==
  \A i, j \in 1..Len(constellations) :
    ( /\ constellations[i].name[1] = "fallback"
      /\ constellations[j].name[1] = "fallback"
      /\ Len(constellations[i].starIds) = Len(constellations[j].starIds) )
    => constellations[i].name = constellations[j].name

\* the saved part of the state a stored text is loaded to, with the
\* constellation list as the first render after loading has it (the list
\* the first reconciliation pass starts from, or the list left in place
\* when no pass runs)
FirstConstellations ==
  IF lastPass'.ran THEN lastPass'.input
  ELSE IF passes' # <<>> THEN passes'[1].currentConstellations
  ELSE constellations'

MissingMember(f) == storage = <<>> \/ f \notin DOMAIN storage[1]

\* C25: a text written by the auto-save loads to the resources, bodies,
\* constellations and upgrade levels it was written from and to the
\* SAVE_LOGS newest log entries; loading sets every member the stored text
\* has, leaves the initial value where a member is missing, and always ends
\* with the game marked loaded, also over a text that does not parse.
C25_RoundTrip ==
  [][ /\ (storage' # storage /\ storage' # <<>>) =>
           LET l == Loaded(storage')
           IN  /\ l.resources = resources
               /\ l.stars = stars
               /\ l.constellations = constellations
               /\ l.upgrades = upgrades
               /\ l.logs = SubSeq(logs, 1, Min(Len(logs), SAVE_LOGS))
      /\ ~isLoaded =>
           /\ isLoaded'
           /\ resources' = IF MissingMember("resources") THEN INITIAL_RESOURCES
                            ELSE Loaded(storage).resources
           /\ stars' = IF MissingMember("stars") THEN <<>> ELSE storage[1].stars
           /\ FirstConstellations = IF MissingMember("constellations") THEN <<>>
                                    ELSE storage[1].constellations
           /\ logs' = IF MissingMember("logs") THEN <<>> ELSE storage[1].logs
           /\ upgrades' = IF MissingMember("upgrades") THEN UPGRADES
                           ELSE Loaded(storage).upgrades
    ]_vars

\* A game of more than SAVE_LOGS log entries, with a constellation and a
\* bought upgrade, was saved and has been loaded again on a new page: the
\* state is the stored one and the log has the SAVE_LOGS stored entries.
C25_Witness ==
  /\ isLoaded
  /\ storage # <<>>
  /\ DOMAIN storage[1] = DOMAIN StoredGame
  /\ Len(storage[1].logs) = SAVE_LOGS
  /\ logs = storage[1].logs
  /\ stars = storage[1].stars
  /\ Len(stars) >= SaveBodies - 1
  /\ constellations = storage[1].constellations
  /\ constellations # <<>>
  /\ upgrades = Loaded(storage).upgrades
  /\ Level("lens_polishing") = 1
  /\ resources = Loaded(storage).resources

\* C26: the step of a confirmed reset (the log of the game played so far
\* gives way to the reset warning alone) ends with no body and no
\* constellation, the initial resources, every upgrade at level 0, no body
\* selected, the scanning and analyzing flags false and nothing stored.
C26_ResetClears ==
  [][ (IsReset /\ logs' # logs) =>
        /\ stars' = <<>>
        /\ constellations' = <<>>
        /\ resources' = [starlight |-> 0, data |-> 0, focus |-> 100]
        /\ \A u \in UpgradeIds : upgrades'[u] = 0
        /\ selectedStar' = <<>>
        /\ ~isScanning'
        /\ ~isAnalyzing'
        /\ storage' = <<>>
    ]_vars

\* The game has just been reset; the step before, a snapshot was stored, an
\* upgrade had a level and bodies and a constellation were on the chart (the
\* suspended scan and analysis are what is left of it).
C26_Witness ==
  /\ Len(logs) = 1
  /\ logs[1].type = "warning"
  /\ stars = <<>>
  /\ storage = <<>>
  /\ scans > 0
  /\ analyses # <<>>
  /\ upgrades = UPGRADES

\* C30: once the game is loaded, a snapshot is eventually written to the
\* storage.
C30_EventuallySaved == isLoaded ~> (storage # <<>>)

\* C31: every step that writes a snapshot to the storage starts in a state
\* in which the game is loaded, so nothing is written over a stored text
\* before loadGame has read it.
C31_NoSaveBeforeLoad ==
  [][ (storage' # storage /\ storage' # <<>>) => isLoaded ]_vars

\* The page was opened over the stored game (its quantum_processor level is
\* above what the scenario lets one buy), the game was loaded and played on,
\* and a new snapshot of it has been written over the stored one.
C31_Witness ==
  /\ isLoaded
  /\ Level("quantum_processor") = 2
  /\ storage = <<Stringify(resources, stars, constellations, upgrades, logs)>>
  /\ storage # <<StoredGame>>

\* C32: starlight, data and focus are never negative, and focus is never
\* above MAX_FOCUS_BASE + 50 * (level of focus_condenser).
C32_ResourcesInRange ==
  /\ resources.starlight >= 0
  /\ resources.data >= 0
  /\ resources.focus >= 0
  /\ resources.focus <= 100 + 50 * upgrades["focus_condenser"]

\* The focus condenser was bought with the last starlight and the game loop
\* has raised the focus above MAX_FOCUS_BASE.
C32_Witness ==
  /\ upgrades["focus_condenser"] = 1
  /\ resources.focus > MAX_FOCUS_BASE
  /\ resources.starlight = 0

\* C33: whenever a body is selected, the selected record and the entry of
\* the body list with the same id have the same analyzed flag and the same
\* description.
C33_SelectedAgrees ==
  selectedStar # <<>> =>
    \A i \in 1..Len(stars) :
      stars[i].id = selectedStar[1].id =>
        /\ stars[i].analyzed = selectedStar[1].analyzed
        /\ stars[i].description = selectedStar[1].description

\* a step of a loaded game that is neither a reset nor a stutter of the
\* upgrades and the resources
UpgradeStep ==
  /\ isLoaded
  /\ (upgrades' # upgrades \/ resources' # resources)
  /\ ~(upgrades' = UPGRADES /\ resources' = INITIAL_RESOURCES)

\* C34: every step that changes a level or the resources by a purchase
\* raises the level of exactly one upgrade by one, from a level below its
\* maximum, and takes exactly the cost of that level from a starlight that
\* covered it, leaving data and focus alone; no level is ever above its
\* maximum.
C34_Purchase ==
  [][ /\ \A u \in UpgradeIds : upgrades'[u] <= UpgradeDefs[u].maxLevel
      /\ UpgradeStep =>
           \E u \in UpgradeIds :
             /\ upgrades' = [upgrades EXCEPT ![u] = @ + 1]
             /\ upgrades[u] < UpgradeDefs[u].maxLevel
             /\ resources.starlight >= HALF * UpgradeCost(u, upgrades[u])
             /\ resources' = [resources EXCEPT
                                !.starlight = @ - HALF * UpgradeCost(u, upgrades[u])]
    ]_vars

\* The quantum processor has been bought up to its maximum and the
\* starlight still covers the cost of a further level, which buyUpgrade
\* refuses.
C34_Witness ==
  /\ isLoaded
  /\ upgrades["quantum_processor"] = UpgradeDefs["quantum_processor"].maxLevel
  /\ resources.starlight >=
       HALF * UpgradeCost("quantum_processor", upgrades["quantum_processor"])
  /\ logs[1].type = "upgrade"

====
